---- MODULE Spec2Model ----
(***************************************************************************)
(* Model of album_processor.py (AlbumAPIProcessor): the share-albums       *)
(* synchronisation of album sharing permissions against a semicolon        *)
(* delimited input table, and the list-all export of the server's sharing  *)
(* state to such a table.  The server (album shares, user directory) and   *)
(* the file on disk are the environment; every HTTP call may fail.         *)
(***************************************************************************)
EXTENDS Integers, Sequences, FiniteSets, TLC

(* ------------------------------------------------------------------ *)
(* Bounds of the model                                                 *)
(* ------------------------------------------------------------------ *)

\* Largest number of data rows of an input file drawn in Init.
MaxRows == 2

\* Number of share-albums invocations in a row (SpecTwice).
MaxRuns == 2

(* ------------------------------------------------------------------ *)
(* Values                                                              *)
(* ------------------------------------------------------------------ *)

None == "None"

COL_ALBUM_NAME == "AlbumName"

COL_ALBUM_ID == "AlbumId"

COL_ROLE == "Role"

\* str.lower() on the strings of the model's alphabet.
Lower(s) ==
  CASE s = "B" -> "b"
    [] s = "Viewer" -> "viewer"
    [] OTHER -> s

\* str.strip() on the strings of the model's alphabet.
Strip(s) ==
  CASE s = " A2 " -> "A2"
    [] s = " " -> ""
    [] OTHER -> s

\* dict.get(k): the value at k, None when k is no key.
Get(d, k) == IF k \in DOMAIN d THEN d[k] ELSE None

\* d[k] = v on a dict (a function whose domain is the set of keys).
Put(d, k, v) == [x \in DOMAIN d \cup {k} |-> IF x = k THEN v ELSE d[x]]

EmptyDict == [x \in {} |-> None]

\* list.index(x): the first position of x, 0 when absent (ValueError).
Index(seq, x) ==
  IF \E i \in 1..Len(seq) : seq[i] = x
  THEN CHOOSE i \in 1..Len(seq) : seq[i] = x /\ \A j \in 1..(i - 1) : seq[j] # x
  ELSE 0

(* ------------------------------------------------------------------ *)
(* The server                                                          *)
(* ------------------------------------------------------------------ *)

\* The albums of the server, in the order GET /api/albums lists them.
Albums == << [id |-> "A1", albumName |-> "Holiday"],
             [id |-> "A2", albumName |-> "Family"] >>

AlbumIds == {Albums[i].id : i \in 1..Len(Albums)}

\* GET /api/users: u4 has no email; u3 (email "z") is shared on albums
\* but is not listed.
UsersListing == << [id |-> "u1", email |-> "a"],
                   [id |-> "u2", email |-> "B"],
                   [id |-> "u4", email |-> ""] >>

\* Every user an album can be shared with, in the order albumUsers lists them.
UserOrder == << "u1", "u2", "u3" >>

UserIds == {UserOrder[i] : i \in 1..Len(UserOrder)}

EmailOf(uid) ==
  CASE uid = "u1" -> "a"
    [] uid = "u2" -> "B"
    [] uid = "u3" -> "z"
    [] OTHER -> ""

Roles == {"editor", "viewer"}

VARIABLES
  albumUsers,        \* server: album id -> (user id -> role, or None)
  file,              \* the table on disk: [exists, lines], header line first
  cmds,              \* the command lines still to be run, in order
  run,               \* number of invocations started so far
  pc,                \* position of the running invocation
  exitCode,          \* exit code of the last invocation, -1 before it has ended
  user_email_to_id,  \* self.user_email_to_id
  album_data,        \* album_data, in insertion order
  idx,               \* number of albums of album_data entered so far
  current_users,     \* current_users of the album being processed
  users_to_remove,   \* emails of users_to_remove not yet iterated
  users_to_share,    \* pairs of data['users'] not yet iterated
  stats,             \* stats
  calls,             \* share and remove requests sent by this invocation
  fetchFailed,       \* the albums whose request for the current users failed
  server0,           \* albumUsers when this invocation started
  history            \* per finished invocation: command, exit code, the server's
                     \* state at its end, the number of its share and remove
                     \* requests, whether a detail, share or remove request failed

vars == << albumUsers, file, cmds, run, pc, exitCode, user_email_to_id,
           album_data, idx, current_users, users_to_remove, users_to_share,
           stats, calls, fetchFailed, server0, history >>

(* ------------------------------------------------------------------ *)
(* Pure parts of the program                                           *)
(* ------------------------------------------------------------------ *)

\* get_users: the email -> id mapping of a user listing.
RECURSIVE EmailToId(_)
EmailToId(users) ==
  IF users = << >> THEN EmptyDict
  ELSE LET n == Len(users)
           rest == EmailToId(SubSeq(users, 1, n - 1))
           user == users[n]
       IN IF user.email # "" /\ user.id # ""
          THEN Put(rest, Lower(user.email), user.id)
          ELSE rest

\* The albumUsers list of an album's JSON record.
RECURSIVE AlbumUsersJson(_, _)
AlbumUsersJson(au, order) ==
  IF order = << >> THEN << >>
  ELSE LET uid == Head(order)
           rest == AlbumUsersJson(au, Tail(order))
       IN IF au[uid] # None
          THEN << [role |-> au[uid],
                   user |-> [email |-> EmailOf(uid), id |-> uid]] >> \o rest
          ELSE rest

\* The JSON record of an album, as get_albums and get_album_details return it.
AlbumJson(album, server) ==
  [id |-> album.id, albumName |-> album.albumName,
   albumUsers |-> AlbumUsersJson(server[album.id], UserOrder)]

\* The loop of get_current_album_users over the albumUsers of the detail record.
RECURSIVE CurrentUsersOf(_)
CurrentUsersOf(entries) ==
  IF entries = << >> THEN EmptyDict
  ELSE LET n == Len(entries)
           rest == CurrentUsersOf(SubSeq(entries, 1, n - 1))
           email == Lower(entries[n].user.email)
           role == entries[n].role
       IN IF email # "" /\ role # "" THEN Put(rest, email, role) ELSE rest

\* get_current_album_users; ok: get_album_details returned the record.
get_current_album_users(ok, album_details) ==
  IF ~ok THEN EmptyDict
  ELSE CurrentUsersOf(album_details.albumUsers)

(* Ingestion of the input table (process_share_albums, lines 220-264) *)

\* The three fixed columns are all in the header (no ValueError).
HeaderOk(headers) ==
  /\ Index(headers, COL_ALBUM_NAME) # 0
  /\ Index(headers, COL_ALBUM_ID) # 0
  /\ Index(headers, COL_ROLE) # 0

\* The emails of one row: the cells from the fourth column on.
RowEmails(row, nCols) ==
  {Lower(Strip(row[i])) : i \in {j \in 4..nCols : j <= Len(row)}} \ {""}

\* Position of album_id in album_data, 0 when it is no key yet.
KeyIndex(data, album_id) ==
  IF \E i \in 1..Len(data) : data[i].id = album_id
  THEN CHOOSE i \in 1..Len(data) : data[i].id = album_id
  ELSE 0

\* A variant of IngestRow that skips a row only for its empty album id.
IngestRow_KeepEmptyRole(acc, row, id_idx, role_idx, nCols) ==
  IF acc.err \/ row = << >> THEN acc
  ELSE IF Len(row) < id_idx \/ Len(row) < role_idx
  THEN [acc EXCEPT !.err = TRUE]
  ELSE LET album_id == Strip(row[id_idx])
           role == Lower(Strip(row[role_idx]))
           pairs == {<< e, role >> : e \in RowEmails(row, nCols)}
           k == KeyIndex(acc.data, album_id)
       IN IF album_id = "" THEN acc
          ELSE IF k = 0
          THEN [acc EXCEPT !.data =
                  Append(@, [id |-> album_id, users |-> pairs, role |-> role])]
          ELSE [acc EXCEPT !.data[k].users = @ \cup pairs]

\* One iteration of the loop over the rows; err: the row raised IndexError.
IngestRow(acc, row, id_idx, role_idx, nCols) ==
  IF acc.err \/ row = << >> THEN acc
  ELSE IF Len(row) < id_idx \/ Len(row) < role_idx
  THEN [acc EXCEPT !.err = TRUE]
  ELSE LET album_id == Strip(row[id_idx])
           role == Lower(Strip(row[role_idx]))
           pairs == {<< e, role >> : e \in RowEmails(row, nCols)}
           k == KeyIndex(acc.data, album_id)
       IN IF album_id = "" \/ role = "" THEN acc
          ELSE IF k = 0
          THEN [acc EXCEPT !.data =
                  Append(@, [id |-> album_id, users |-> pairs, role |-> role])]
          ELSE [acc EXCEPT !.data[k].users = @ \cup pairs]

RECURSIVE IngestRows(_, _, _, _)
IngestRows(rows, id_idx, role_idx, nCols) ==
  IF rows = << >> THEN [err |-> FALSE, data |-> << >>]
  ELSE LET n == Len(rows)
       IN IngestRow(IngestRows(SubSeq(rows, 1, n - 1), id_idx, role_idx, nCols),
                    rows[n], id_idx, role_idx, nCols)

\* album_data of a file whose header is well formed.
Ingest(lines) ==
  LET headers == Head(lines)
  IN IngestRows(Tail(lines), Index(headers, COL_ALBUM_ID),
                Index(headers, COL_ROLE), Len(headers))

(* The export (process_albums_to_csv, lines 154-206) *)

\* role_users of one album, in insertion order.
RECURSIVE RoleUsers(_)
RoleUsers(album_users) ==
  IF album_users = << >> THEN << >>
  ELSE LET n == Len(album_users)
           rest == RoleUsers(SubSeq(album_users, 1, n - 1))
           role == album_users[n].role
           user_email == album_users[n].user.email
           added == IF user_email # "" THEN << user_email >> ELSE << >>
           k == IF \E i \in 1..Len(rest) : rest[i].role = role
                THEN CHOOSE i \in 1..Len(rest) : rest[i].role = role
                ELSE 0
       IN IF k = 0 THEN Append(rest, [role |-> role, users |-> added])
          ELSE [rest EXCEPT ![k].users = @ \o added]

\* A variant of AlbumEntries that does not group by role: one entry per album,
\* under the role of its first share.
AlbumEntries_OneRow(album) ==
  IF album.albumUsers = << >>
  THEN << [name |-> album.albumName, id |-> album.id, role |-> "", users |-> << >>] >>
  ELSE << [name |-> album.albumName, id |-> album.id,
           role |-> album.albumUsers[1].role,
           users |-> [i \in 1..Len(album.albumUsers) |->
                        album.albumUsers[i].user.email]] >>

\* The entries one album appends to processed_albums.
AlbumEntries(album) ==
  IF album.albumUsers = << >>
  THEN << [name |-> album.albumName, id |-> album.id, role |-> "", users |-> << >>] >>
  ELSE LET ru == RoleUsers(album.albumUsers)
       IN [i \in 1..Len(ru) |->
             [name |-> album.albumName, id |-> album.id,
              role |-> ru[i].role, users |-> ru[i].users]]

RECURSIVE ProcessedAlbums(_)
ProcessedAlbums(albums) ==
  IF albums = << >> THEN << >>
  ELSE AlbumEntries(Head(albums)) \o ProcessedAlbums(Tail(albums))

\* max(len(album['users']) for album in processed_albums), 0 when empty.
MaxUsers(processed) ==
  IF processed = << >> THEN 0
  ELSE CHOOSE m \in {Len(processed[i].users) : i \in 1..Len(processed)} :
         \A i \in 1..Len(processed) : Len(processed[i].users) <= m

\* f'User {i+1}'
UserCol(i) ==
  CASE i = 1 -> "User 1"
    [] i = 2 -> "User 2"
    [] i = 3 -> "User 3"
    [] OTHER -> "User 4"

\* A variant of CsvLines that writes the rows without padding them.
CsvLines_NoPadding(processed) ==
  LET max_users == MaxUsers(processed)
      headers == << COL_ALBUM_NAME, COL_ALBUM_ID, COL_ROLE >>
                   \o [i \in 1..max_users |-> UserCol(i)]
      Row(album) == << album.name, album.id, album.role >> \o album.users
  IN << headers >> \o [i \in 1..Len(processed) |-> Row(processed[i])]

\* The lines written to the output file: the header, then one row per entry.
CsvLines(processed) ==
  LET max_users == MaxUsers(processed)
      headers == << COL_ALBUM_NAME, COL_ALBUM_ID, COL_ROLE >>
                   \o [i \in 1..max_users |-> UserCol(i)]
      Row(album) == << album.name, album.id, album.role >> \o album.users
                      \o [i \in 1..(max_users - Len(album.users)) |-> ""]
  IN << headers >> \o [i \in 1..Len(processed) |-> Row(processed[i])]

(* ------------------------------------------------------------------ *)
(* Inputs                                                              *)
(* ------------------------------------------------------------------ *)

NoShares == [u \in UserIds |-> None]

\* Every sharing state of the server.
AllServerStates == [AlbumIds -> [UserIds -> Roles \cup {None}]]

\* The sharing states a share-albums run is started in.
ServerStates ==
  {s \in AllServerStates :
     /\ s["A1"]["u2"] # "editor" /\ s["A1"]["u3"] # "editor"
     /\ s["A2"] = [NoShares EXCEPT !["u1"] = "editor"]}

GoodHeader == << COL_ALBUM_NAME, COL_ALBUM_ID, COL_ROLE, "User 1" >>

\* Headers that lack one of the three fixed columns.
BadHeaders == { << COL_ALBUM_ID, COL_ROLE, "User 1" >>,
                << COL_ALBUM_NAME, COL_ROLE, "User 1" >>,
                << COL_ALBUM_NAME, COL_ALBUM_ID, "User 1" >> }

\* The data rows of input files: rows of both albums, rows that are skipped
\* (empty id, empty role, empty line), a row of an album the server does not
\* have, a row without user cells and a row that ends before the Role column.
InputRows ==
  {<< "n", "A1", r, u >> : r \in {"editor", "Viewer"}, u \in {"a", "B", "z", ""}}
  \cup {<< "n", " A2 ", "Viewer", u >> : u \in {"a", ""}}
  \cup { << "n", "", "editor", "a" >>, << "n", "A2", " ", "a" >>,
         << "n", "A9", "editor", "a" >>,
         << "n", "A1", "editor" >>, << "n", "A1" >>, << >> }

\* The rows of the files that are synchronised several times in a row.
RepeatedRows ==
  { << "n", "A1", "editor", "a" >>, << "n", "A1", "Viewer", "a" >>,
    << "n", "A1", "editor", "z" >>, << "n", " A2 ", "Viewer", "" >> }

RECURSIVE RowLists(_, _)
RowLists(rows, n) ==
  IF n = 0 THEN {<< >>}
  ELSE LET shorter == RowLists(rows, n - 1)
       IN shorter \cup {Append(l, r) : l \in {x \in shorter : Len(x) = n - 1},
                                       r \in rows}

\* The input files of a run: none, an empty one, one with a malformed
\* header, and every table of at most MaxRows rows under the good header.
InputFiles ==
  { [exists |-> FALSE, lines |-> << >>], [exists |-> TRUE, lines |-> << >>] }
  \cup {[exists |-> TRUE, lines |-> << h, r >>] : h \in BadHeaders, r \in InputRows}
  \cup {[exists |-> TRUE, lines |-> << GoodHeader >> \o l] : l \in RowLists(InputRows, MaxRows)}

\* What a share or remove request can do: succeed, fail, or fail at the
\* client (a timeout) after the server has applied it.  A request on an
\* album the server does not have fails.
Outcomes(album_id) ==
  IF album_id \in AlbumIds
  THEN { [ok |-> TRUE, applied |-> TRUE], [ok |-> FALSE, applied |-> FALSE],
         [ok |-> FALSE, applied |-> TRUE] }
  ELSE { [ok |-> FALSE, applied |-> FALSE] }

RepeatedFiles ==
  {[exists |-> TRUE, lines |-> << GoodHeader >> \o l] :
     l \in RowLists(RepeatedRows, MaxRows)}

\* The sharing states that are exported.
ExportServerStates ==
  {s \in AllServerStates : s["A2"]["u2"] = None /\ s["A2"]["u3"] = None}

NewStats == [total_albums |-> 0, successful_shares |-> 0, failed_shares |-> 0,
             users_removed |-> 0, removal_failures |-> 0, users_not_found |-> {}]

(* ------------------------------------------------------------------ *)
(* State machine                                                       *)
(* ------------------------------------------------------------------ *)

InitProcess ==
  /\ run = 0
  /\ pc = "idle"
  /\ exitCode = -1
  /\ user_email_to_id = EmptyDict
  /\ album_data = << >>
  /\ idx = 0
  /\ current_users = EmptyDict
  /\ users_to_remove = {}
  /\ users_to_share = {}
  /\ stats = NewStats
  /\ calls = << >>
  /\ fetchFailed = {}
  /\ server0 = albumUsers
  /\ history = << >>

\* One share-albums run on any input file.
Init ==
  /\ albumUsers \in ServerStates
  /\ file \in InputFiles
  /\ cmds = << "share-albums" >>
  /\ InitProcess

\* The process ends with exit code `code`.
Exit(code) ==
  /\ pc' = "exited"
  /\ exitCode' = code
  /\ history' = Append(history,
       [cmd |-> Head(cmds), exitCode |-> code, server |-> albumUsers',
        ncalls |-> Len(calls'),
        failures |-> (fetchFailed' # {} \/ \E i \in 1..Len(calls') : ~calls'[i].ok)])
  /\ cmds' = Tail(cmds)

Running == UNCHANGED << cmds, exitCode, history >>

\* A new process: main() builds the AlbumAPIProcessor for command `cmd`.
NewProcess(cmd) ==
  /\ pc \in {"idle", "exited"}
  /\ cmds # << >> /\ Head(cmds) = cmd
  /\ run' = run + 1
  /\ album_data' = << >> /\ idx' = 0
  /\ current_users' = EmptyDict
  /\ users_to_remove' = {} /\ users_to_share' = {}
  /\ stats' = NewStats
  /\ calls' = << >>
  /\ fetchFailed' = {}
  /\ server0' = albumUsers

\* main() with share-albums, then get_users at the head of process_share_albums.
ShareAlbums ==
  /\ NewProcess("share-albums")
  /\ UNCHANGED << albumUsers, file >>
  /\ \E ok \in BOOLEAN :
       IF ok
       THEN /\ user_email_to_id' = EmailToId(UsersListing)
            /\ pc' = "read"
            /\ exitCode' = -1
            /\ UNCHANGED << cmds, history >>
       ELSE /\ user_email_to_id' = EmptyDict
            /\ Exit(1)

\* Lines 218-264: open the file, read the header, group the rows by album.
ReadInput ==
  /\ pc = "read"
  /\ UNCHANGED << albumUsers, file, run, user_email_to_id, idx, current_users,
                  users_to_remove, users_to_share, stats, calls, fetchFailed,
                  server0 >>
  /\ IF ~file.exists \/ file.lines = << >>
     THEN album_data' = album_data /\ Exit(1)
     ELSE IF ~HeaderOk(Head(file.lines))
     THEN album_data' = album_data /\ Exit(0)
     ELSE LET got == Ingest(file.lines)
          IN IF got.err
             THEN album_data' = album_data /\ Exit(1)
             ELSE album_data' = got.data /\ pc' = "albums" /\ Running

\* A variant of UsersToRemove that slates every current user for removal
\* (remove, then share again).
UsersToRemove_Everyone(current, data_users) == DOMAIN current

\* A variant of UsersToRemove that slates nobody for removal.
UsersToRemove_Nobody(current, data_users) == {}

\* Lines 280-281: users_to_remove.
UsersToRemove(current, data_users) ==
  LET desired_users == {p[1] : p \in data_users}
  IN DOMAIN current \ desired_users

\* A variant of NeedsShare that sends a share request for every resolved pair.
NeedsShare_Always(current, email, role) == TRUE

\* Lines 299-300: the desired role differs from the current one (None: not shared).
NeedsShare(current, email, role) == Get(current, email) # role

\* Lines 288-293: the statistics after a remove request.
RemoveStats(st, ok) ==
  IF ok THEN [st EXCEPT !.users_removed = @ + 1]
  ELSE [st EXCEPT !.removal_failures = @ + 1]

\* A variant of ShareStats that does not count a failed share request.
ShareStats_DropFailure(st, ok) ==
  IF ok THEN [st EXCEPT !.successful_shares = @ + 1] ELSE st

\* Lines 302-305: the statistics after a share request.
ShareStats(st, ok) ==
  IF ok THEN [st EXCEPT !.successful_shares = @ + 1]
  ELSE [st EXCEPT !.failed_shares = @ + 1]

\* A variant of NotFoundStats that records the email without counting a failure.
NotFoundStats_NoCount(st, email) ==
  [st EXCEPT !.users_not_found = @ \cup {email}]

\* Lines 307-308: the statistics after a desired email that does not resolve.
NotFoundStats(st, email) ==
  [st EXCEPT !.users_not_found = @ \cup {email}, !.failed_shares = @ + 1]

\* A variant of RemovalsDone that lets the two loops interleave.
RemovalsDone_Ignored(remaining) == TRUE

\* The loop over users_to_remove (line 284) has ended when the loop over
\* data['users'] (line 296) starts.
RemovalsDone(remaining) == remaining = {}

LoopIdle == pc = "albums" /\ users_to_remove = {} /\ users_to_share = {}

\* Lines 267-281: enter the next album, fetch its details twice: for the name
\* that is printed (ok1), then for the current users (ok2).
BeginAlbum ==
  /\ LoopIdle
  /\ idx < Len(album_data)
  /\ idx' = idx + 1
  /\ stats' = [stats EXCEPT !.total_albums = @ + 1]
  /\ \E ok1, ok2 \in BOOLEAN :
       LET data == album_data[idx + 1]
           known == data.id \in AlbumIds
           details == AlbumJson(CHOOSE a \in {Albums[i] : i \in 1..Len(Albums)} :
                                  a.id = data.id, albumUsers)
           album_name == IF ok1 /\ known THEN details.albumName ELSE "Unknown Album"
           current == IF known THEN get_current_album_users(ok2, details)
                      ELSE EmptyDict
       IN /\ current_users' = current
          /\ users_to_remove' = UsersToRemove(current, data.users)
          /\ users_to_share' = data.users
          /\ album_name \in {"Unknown Album"} \cup {Albums[i].albumName : i \in 1..Len(Albums)}
          /\ fetchFailed' = fetchFailed \cup (IF ok2 /\ known THEN {} ELSE {data.id})
  /\ UNCHANGED << albumUsers, file, run, pc, user_email_to_id, album_data,
                  calls, server0 >>
  /\ Running

\* The server's state after a request on (album, user) that it applied.
Applied(server, album_id, user_id, role) ==
  [server EXCEPT ![album_id][user_id] = role]

\* Lines 284-293: one iteration of the loop over users_to_remove.
RemoveUser ==
  /\ pc = "albums"
  /\ \E email \in users_to_remove :
       LET album_id == album_data[idx].id
           user_id == Get(user_email_to_id, email)
       IN /\ users_to_remove' = users_to_remove \ {email}
          /\ IF user_id # None
             THEN \E out \in Outcomes(album_id) :
                    /\ calls' = Append(calls, [op |-> "remove", album |-> album_id,
                                               user |-> user_id, email |-> email,
                                               role |-> None, ok |-> out.ok])
                    /\ albumUsers' = IF out.applied
                                     THEN Applied(albumUsers, album_id, user_id, None)
                                     ELSE albumUsers
                    /\ stats' = RemoveStats(stats, out.ok)
             ELSE UNCHANGED << calls, albumUsers, stats >>
  /\ UNCHANGED << file, run, pc, user_email_to_id, album_data, idx, current_users,
                  users_to_share, fetchFailed, server0 >>
  /\ Running

\* Lines 296-308: one iteration of the loop over data['users'].
ShareUser ==
  /\ pc = "albums"
  /\ RemovalsDone(users_to_remove)
  /\ \E pair \in users_to_share :
       LET album_id == album_data[idx].id
           email == pair[1]
           role == pair[2]
           user_id == Get(user_email_to_id, email)
       IN /\ users_to_share' = users_to_share \ {pair}
          /\ IF user_id # None
             THEN IF NeedsShare(current_users, email, role)
                  THEN \E out \in Outcomes(album_id) :
                         /\ calls' = Append(calls, [op |-> "share", album |-> album_id,
                                                    user |-> user_id, email |-> email,
                                                    role |-> role, ok |-> out.ok])
                         /\ albumUsers' = IF out.applied
                                          THEN Applied(albumUsers, album_id, user_id, role)
                                          ELSE albumUsers
                         /\ stats' = ShareStats(stats, out.ok)
                  ELSE UNCHANGED << calls, albumUsers, stats >>
             ELSE /\ stats' = NotFoundStats(stats, email)
                  /\ UNCHANGED << calls, albumUsers >>
  /\ UNCHANGED << file, run, pc, user_email_to_id, album_data, idx, current_users,
                  users_to_remove, fetchFailed, server0 >>
  /\ Running

\* Lines 310-320, and main() returning: the statistics are printed, exit code 0.
Finish ==
  /\ LoopIdle
  /\ idx = Len(album_data)
  /\ UNCHANGED << albumUsers, file, run, user_email_to_id, album_data, idx,
                  current_users, users_to_remove, users_to_share, stats, calls,
                  fetchFailed, server0 >>
  /\ Exit(0)

\* main() with list-all: process_albums_to_csv.
ListAll ==
  /\ NewProcess("list-all")
  /\ UNCHANGED << albumUsers, user_email_to_id >>
  /\ \E ok \in BOOLEAN :
       IF ok
       THEN LET albums == [i \in 1..Len(Albums) |-> AlbumJson(Albums[i], albumUsers)]
            IN /\ file' = IF albums = << >> THEN file
                          ELSE [exists |-> TRUE,
                                lines |-> CsvLines(ProcessedAlbums(albums))]
               /\ Exit(0)
       ELSE file' = file /\ Exit(1)

Next == ShareAlbums \/ ReadInput \/ BeginAlbum \/ RemoveUser \/ ShareUser \/ Finish

Spec == Init /\ [][Next]_vars

\* MaxRuns share-albums runs in a row on the same input file.
InitTwice ==
  /\ albumUsers \in ServerStates
  /\ file \in RepeatedFiles
  /\ cmds = [i \in 1..MaxRuns |-> "share-albums"]
  /\ InitProcess

SpecTwice == InitTwice /\ [][Next]_vars

\* An export of any sharing state, then a share-albums run on the export.
InitExport ==
  /\ albumUsers \in ExportServerStates
  /\ file = [exists |-> FALSE, lines |-> << >>]
  /\ cmds = << "list-all", "share-albums" >>
  /\ InitProcess

\* Between two invocations another client of the server changes one share.
OtherClient ==
  /\ pc = "exited"
  /\ cmds # << >>
  /\ history[Len(history)].server = albumUsers
  /\ \E album_id \in AlbumIds, user_id \in UserIds, role \in Roles \cup {None} :
       /\ albumUsers[album_id][user_id] # role
       /\ albumUsers' = Applied(albumUsers, album_id, user_id, role)
  /\ UNCHANGED << file, cmds, run, pc, exitCode, user_email_to_id, album_data, idx,
                  current_users, users_to_remove, users_to_share, stats, calls,
                  fetchFailed, server0, history >>

NextExport == ListAll \/ OtherClient \/ Next

SpecExport == InitExport /\ [][NextExport]_vars

(* ------------------------------------------------------------------ *)
(* Vocabulary of the properties                                        *)
(* ------------------------------------------------------------------ *)

\* The directory of the server: the normalised emails its listing resolves.
Resolvable == {Lower(UsersListing[i].email) : i \in 1..Len(UsersListing)} \ {""}

\* The (email, role) shares the server holds for an album, emails normalised.
ShareSet(server, album_id) ==
  IF album_id \in AlbumIds
  THEN {<< Lower(EmailOf(u)), server[album_id][u] >> :
          u \in {v \in UserIds : server[album_id][v] # None}}
  ELSE {}

SharedEmails(server, album_id) == {p[1] : p \in ShareSet(server, album_id)}

\* The desired pairs of the i-th album of the desired state, and their emails.
Desired(i) == album_data[i].users

DesiredEmails(i) == {p[1] : p \in Desired(i)}

ResolvedDesired(i) == {p \in Desired(i) : p[1] \in Resolvable}

\* No email has two roles in the desired set of the i-th album.
OneRolePerEmail(i) == \A p, q \in Desired(i) : p[1] = q[1] => p = q

\* The requests of this invocation on an album.
CallsOn(album_id) == {k \in 1..Len(calls) : calls[k].album = album_id}

\* A share-albums run has finished its loop over the albums.
SyncFinished ==
  /\ pc = "exited"
  /\ run > 0
  /\ history[run].cmd = "share-albums"
  /\ idx = Len(album_data)
  /\ idx > 0

\* Every request of the run for the i-th album succeeded.
AlbumClean(i) ==
  /\ album_data[i].id \notin fetchFailed
  /\ \A k \in CallsOn(album_data[i].id) : calls[k].ok

(* ------------------------------------------------------------------ *)
(* C1                                                                  *)
(* ------------------------------------------------------------------ *)

\* C1 as stated: once process_share_albums has finished, for every album of
\* the desired state the server's (email, role) shares equal the desired
\* pairs whose email resolves in the user directory.
C1_AsStated ==
  SyncFinished =>
    \A i \in 1..Len(album_data) :
      ShareSet(albumUsers, album_data[i].id) = ResolvedDesired(i)

\* C1, amended: the equality holds for every album of the desired state for
\* which the fetch of the current users and every share and remove request
\* of the run succeeded, whose users shared at the start all resolve in the
\* directory, and whose desired set gives no email two roles.
C1_Converges ==
  SyncFinished =>
    \A i \in 1..Len(album_data) :
      ( /\ AlbumClean(i)
        /\ SharedEmails(server0, album_data[i].id) \subseteq Resolvable
        /\ OneRolePerEmail(i) )
      => ShareSet(albumUsers, album_data[i].id) = ResolvedDesired(i)

\* A finished run that removed a user, changed a role and left an unresolved
\* desired email out, all on one album.
C1_Witness ==
  /\ SyncFinished
  /\ \E i \in 1..Len(album_data) :
       /\ AlbumClean(i)
       /\ SharedEmails(server0, album_data[i].id) \subseteq Resolvable
       /\ OneRolePerEmail(i)
       /\ ResolvedDesired(i) # Desired(i)
       /\ ResolvedDesired(i) # {}
       /\ \E k \in CallsOn(album_data[i].id) : calls[k].op = "remove"
       /\ \E k \in CallsOn(album_data[i].id) :
            /\ calls[k].op = "share"
            /\ calls[k].email \in SharedEmails(server0, album_data[i].id)

(* ------------------------------------------------------------------ *)
(* C2                                                                  *)
(* ------------------------------------------------------------------ *)

\* The invocation before the current one was a share-albums run.
SecondRun == run >= 2 /\ history[run - 1].cmd = "share-albums"

\* C2 as stated: a share-albums run that follows a share-albums run on the
\* same input (the server changed by nothing but the first run's calls) sends
\* no share and no remove request.  A first run that was aborted (exit code 1)
\* is not counted as a run of process_share_albums.
C2_AsStated ==
  (SecondRun /\ history[run - 1].exitCode = 0) => calls = << >>

\* C2, amended: when the first run ended with exit code 0 and none of its
\* detail, share or remove requests failed, the second run sends no share and
\* no remove request for any album whose fetch of the current users succeeds
\* and whose desired set gives no email two roles.
C2_Idempotent ==
  ( /\ SecondRun
    /\ history[run - 1].exitCode = 0
    /\ ~history[run - 1].failures )
  => \A i \in 1..Len(album_data) :
       (album_data[i].id \notin fetchFailed /\ OneRolePerEmail(i))
       => CallsOn(album_data[i].id) = {}

\* A second run that finds nothing to do after a first run that sent requests.
C2_Witness ==
  /\ SecondRun
  /\ SyncFinished
  /\ history[run - 1].exitCode = 0
  /\ ~history[run - 1].failures
  /\ history[run - 1].ncalls >= 2
  /\ fetchFailed = {}
  /\ \A i \in 1..Len(album_data) : OneRolePerEmail(i)
  /\ \E i \in 1..Len(album_data) : ResolvedDesired(i) # {}
  /\ calls = << >>

(* ------------------------------------------------------------------ *)
(* C3                                                                  *)
(* ------------------------------------------------------------------ *)

\* The current invocation is a share-albums run on the file a successful
\* list-all has just written, the server's sharing state being the exported one.
OnExport ==
  /\ run >= 2
  /\ history[run - 1].cmd = "list-all"
  /\ history[run - 1].exitCode = 0
  /\ history[run - 1].server = server0

\* C3 as stated: exporting the sharing state, ingesting the export as the
\* desired state and synchronising against the same server state sends no
\* share and no remove request.
C3_AsStated == OnExport => calls = << >>

\* C3, amended: the run on the export sends no share and no remove request for
\* any album whose fetch of the current users succeeds.
C3_RoundTrip ==
  OnExport => \A k \in 1..Len(calls) : calls[k].album \in fetchFailed

\* A finished run on the export of two shared albums, one of them under two
\* roles and with a user the directory does not resolve: no request was sent.
C3_Witness ==
  /\ OnExport
  /\ SyncFinished
  /\ fetchFailed = {}
  /\ Len(album_data) = 2
  /\ \E i \in 1..Len(album_data) :
       /\ Cardinality({p[2] : p \in Desired(i)}) = 2
       /\ ResolvedDesired(i) # Desired(i)
       /\ "b" \in DesiredEmails(i)
  /\ calls = << >>

(* ------------------------------------------------------------------ *)
(* C4                                                                  *)
(* ------------------------------------------------------------------ *)

\* Position in album_data of the album a request was sent for.
AlbumOf(k) == CHOOSE i \in 1..Len(album_data) : album_data[i].id = calls[k].album

RemovedEmails(album_id) ==
  {calls[k].email : k \in {j \in CallsOn(album_id) : calls[j].op = "remove"}}

UpdatedEmails(album_id) ==
  {calls[k].email : k \in {j \in CallsOn(album_id) : calls[j].op = "share"}}

\* Remove requests go to emails outside the album's desired set only, share
\* requests to emails inside it, so the two sets of emails are disjoint.
RemovalsOutsideDesired ==
  /\ \A k \in 1..Len(calls) :
       /\ calls[k].op = "remove" => calls[k].email \notin DesiredEmails(AlbumOf(k))
       /\ calls[k].op = "share" => calls[k].email \in DesiredEmails(AlbumOf(k))
  /\ \A i \in 1..Len(album_data) :
       RemovedEmails(album_data[i].id) \cap UpdatedEmails(album_data[i].id) = {}

\* No step unshares a user whose email is in the desired set of the album.
DesiredStayShared ==
  \A i \in 1..Len(album_data) : \A u \in UserIds :
    ( /\ album_data[i].id \in AlbumIds
      /\ albumUsers[album_data[i].id][u] # None
      /\ Lower(EmailOf(u)) \in DesiredEmails(i) )
    => albumUsers'[album_data[i].id][u] # None

\* C4: within one pass over an album the emails of the remove requests and
\* those of the share requests are disjoint, a remove request goes only to an
\* email absent from the album's desired set, and a user who stays in the
\* desired set (a role change included) is at no point unshared.
C4_NoRemoveThenAdd == []RemovalsOutsideDesired /\ [][DesiredStayShared]_vars

\* A finished pass over an album that removed one user and changed the role
\* of another by a share request alone.
C4_Witness ==
  /\ SyncFinished
  /\ \E i \in 1..Len(album_data) :
       \E k1, k2 \in CallsOn(album_data[i].id) :
         /\ calls[k1].op = "remove" /\ calls[k1].ok
         /\ calls[k2].op = "share" /\ calls[k2].ok
         /\ calls[k2].email \in SharedEmails(server0, album_data[i].id)
         /\ << calls[k2].email, calls[k2].role >> \in ShareSet(albumUsers, album_data[i].id)
         /\ << calls[k2].email, calls[k2].role >> \notin ShareSet(server0, album_data[i].id)
         /\ calls[k2].email \notin RemovedEmails(album_data[i].id)

(* ------------------------------------------------------------------ *)
(* C5                                                                  *)
(* ------------------------------------------------------------------ *)

\* The run read a file whose header lacks one of the three fixed columns.
MalformedHeaderRead ==
  /\ pc = "exited"
  /\ run = 1
  /\ history[1].cmd = "share-albums"
  /\ user_email_to_id # EmptyDict
  /\ file.exists
  /\ file.lines # << >>
  /\ ~HeaderOk(Head(file.lines))

\* C5: a header row that lacks AlbumName, AlbumId or Role is fatal: no share
\* and no remove request is sent for any album, and the exit code is 1.
C5_MalformedHeaderFatal ==
  MalformedHeaderRead =>
    /\ calls = << >>
    /\ albumUsers = server0
    /\ exitCode = 1

(* ------------------------------------------------------------------ *)
(* C6                                                                  *)
(* ------------------------------------------------------------------ *)

\* The album ids of the valid rows of the input file (non-empty id and role),
\* read off the rows under the fixed column order.
ValidIds ==
  IF file.lines = << >> THEN {}
  ELSE {Strip(file.lines[k][2]) :
          k \in {j \in 2..Len(file.lines) :
                   /\ Len(file.lines[j]) >= 3
                   /\ Strip(file.lines[j][2]) # ""
                   /\ Lower(Strip(file.lines[j][3])) # ""}}

\* The input file is ingested without an exception.
Ingestible ==
  /\ file.exists
  /\ file.lines # << >>
  /\ HeaderOk(Head(file.lines))
  /\ \A k \in 2..Len(file.lines) :
       file.lines[k] = << >> \/ Len(file.lines[k]) >= 3

CountCalls(op, ok) ==
  Cardinality({k \in 1..Len(calls) : calls[k].op = op /\ calls[k].ok = ok})

\* The desired pairs the share loop has iterated so far, per album.
IteratedPairs ==
  UNION { {<< i, p >> : p \in IF i < idx THEN Desired(i)
                              ELSE Desired(i) \ users_to_share} : i \in 1..idx }

\* The requests a run owes: per album, one removal for every resolvable
\* current email outside the desired set and one share for every resolved
\* desired pair the current state lacks; the current state of an album whose
\* fetch failed counts as empty.
OwedCalls ==
  UNION { LET id == album_data[i].id
              cur == IF id \in fetchFailed THEN {} ELSE ShareSet(server0, id)
          IN {[op |-> "remove", album |-> id, email |-> e, role |-> None] :
                e \in ({p[1] : p \in cur} \ DesiredEmails(i)) \cap Resolvable}
             \cup {[op |-> "share", album |-> id, email |-> p[1], role |-> p[2]] :
                     p \in {q \in ResolvedDesired(i) : q \notin cur}}
        : i \in 1..Len(album_data) }

SentCalls ==
  {[op |-> calls[k].op, album |-> calls[k].album, email |-> calls[k].email,
    role |-> calls[k].role] : k \in 1..Len(calls)}

\* C6: failing share, remove and detail requests never end the run: every
\* request is counted once, as a success or as a failure; and a run whose
\* input is ingested ends with exit code 0, total_albums equal to the number
\* of distinct album ids of the desired state, and every owed request of
\* every album sent exactly once.
C6_FailuresNotFatal ==
  /\ stats.successful_shares = CountCalls("share", TRUE)
  /\ stats.failed_shares = CountCalls("share", FALSE)
        + Cardinality({x \in IteratedPairs : x[2][1] \notin Resolvable})
  /\ stats.users_removed = CountCalls("remove", TRUE)
  /\ stats.removal_failures = CountCalls("remove", FALSE)
  /\ (pc = "exited" /\ user_email_to_id # EmptyDict /\ Ingestible) =>
       /\ exitCode = 0
       /\ stats.total_albums = Cardinality(ValidIds)
       /\ SentCalls = OwedCalls
       /\ Len(calls) = Cardinality(OwedCalls)

\* A finished run in which a fetch, a remove request and a share request
\* failed and a request of a later album succeeded.
C6_Witness ==
  /\ pc = "exited"
  /\ exitCode = 0
  /\ fetchFailed # {}
  /\ stats.removal_failures > 0
  /\ CountCalls("share", FALSE) > 0
  /\ stats.total_albums = 2
  /\ \E j, k \in 1..Len(calls) :
       j < k /\ ~calls[j].ok /\ calls[k].ok /\ calls[j].album # calls[k].album

(* ------------------------------------------------------------------ *)
(* C7                                                                  *)
(* ------------------------------------------------------------------ *)

\* No request is ever sent for an email the directory does not resolve.
NoCallForUnresolved == \A k \in 1..Len(calls) : calls[k].email \in Resolvable

\* The step that iterates a desired pair whose email does not resolve sends
\* nothing, records the email and counts one failed share.
UnresolvedPairStep ==
  \A pair \in users_to_share :
    (users_to_share' = users_to_share \ {pair} /\ pair[1] \notin Resolvable)
    => /\ calls' = calls
       /\ albumUsers' = albumUsers
       /\ stats' = [stats EXCEPT !.failed_shares = @ + 1,
                                 !.users_not_found = @ \cup {pair[1]}]

\* C7: for a desired pair whose email is absent from the directory no share
\* and no remove request is sent, the email joins users_not_found and
\* failed_shares grows by exactly 1, whatever the album's sharing state.
C7_UnresolvedCounted == []NoCallForUnresolved /\ [][UnresolvedPairStep]_vars

\* A finished run whose desired set holds, under two roles, the email of a
\* user who is shared on the album and whom the directory does not resolve.
C7_Witness ==
  /\ SyncFinished
  /\ \E i \in 1..Len(album_data) :
       /\ "z" \in SharedEmails(server0, album_data[i].id)
       /\ {p \in Desired(i) : p[1] = "z"} = {<< "z", "editor" >>, << "z", "viewer" >>}
       /\ "z" \in SharedEmails(albumUsers, album_data[i].id)
  /\ stats.users_not_found = {"z"}
  /\ stats.failed_shares = 2
  /\ calls = << >>

(* ------------------------------------------------------------------ *)
(* C8                                                                  *)
(* ------------------------------------------------------------------ *)

\* Requests are sent only once the directory is loaded, and within an album
\* no remove request follows a share request.
RemovesBeforeShares ==
  /\ calls # << >> =>
       /\ pc \in {"albums", "exited"}
       /\ DOMAIN user_email_to_id = Resolvable
  /\ \A j, k \in 1..Len(calls) :
       (j < k /\ calls[j].album = calls[k].album)
       => ~(calls[j].op = "share" /\ calls[k].op = "remove")

\* Once loaded, the directory is not modified for the rest of the run.
DirectoryFrozen ==
  pc \in {"read", "albums"} => user_email_to_id' = user_email_to_id

\* C8: the directory is fetched before any share or remove request and never
\* modified afterwards, and within each album every remove request is sent
\* before the first share request.
C8_Ordering == []RemovesBeforeShares /\ [][DirectoryFrozen]_vars

\* A finished run that sent, for one album, a remove request and then a share
\* request, and a request for the other album.
C8_Witness ==
  /\ SyncFinished
  /\ \E i, j, k \in 1..Len(calls) :
       /\ j < k
       /\ calls[j].album = calls[k].album
       /\ calls[j].op = "remove" /\ calls[k].op = "share"
       /\ calls[i].album # calls[k].album

(* ------------------------------------------------------------------ *)
(* C9                                                                  *)
(* ------------------------------------------------------------------ *)

\* The first invocation was a list-all that succeeded: `file` is its export of
\* the sharing state history[1].server.
Exported ==
  /\ Len(history) >= 1
  /\ history[1].cmd = "list-all"
  /\ history[1].exitCode = 0

ExportedRolesOf(album_id) ==
  {history[1].server[album_id][u] : u \in UserIds} \ {None}

ExportedUsersWith(album_id, role) ==
  {u \in UserIds : history[1].server[album_id][u] = role}

\* The largest number of users one role has in one album of the exported state.
ExportedWidth ==
  LET sizes == {Cardinality(ExportedUsersWith(a, r)) : a \in AlbumIds, r \in Roles}
  IN CHOOSE m \in sizes : \A n \in sizes : n <= m

\* The data rows of the export that carry an album's id.
ExportRowsOf(album_id) ==
  {k \in 2..Len(file.lines) : file.lines[k][2] = album_id}

\* The user cells of a row that are not empty.
FilledCells(row) == {j \in 4..Len(row) : row[j] # ""}

\* C9: the export has, per album, exactly one row per distinct role among its
\* shares, holding the emails of the users of that role, and exactly one row
\* with empty role and no users for an album without shares; the header and
\* every row have 3 + M cells, M the largest number of users of any row.
C9_ExportShape ==
  Exported =>
    /\ file.exists
    /\ \A k \in 1..Len(file.lines) : Len(file.lines[k]) = 3 + ExportedWidth
    /\ \A k \in 2..Len(file.lines) : file.lines[k][2] \in AlbumIds
    /\ \A a \in AlbumIds :
         IF ExportedRolesOf(a) = {}
         THEN /\ Cardinality(ExportRowsOf(a)) = 1
              /\ \A k \in ExportRowsOf(a) :
                   file.lines[k][3] = "" /\ FilledCells(file.lines[k]) = {}
         ELSE /\ Cardinality(ExportRowsOf(a)) = Cardinality(ExportedRolesOf(a))
              /\ \A r \in ExportedRolesOf(a) :
                   \E k \in ExportRowsOf(a) :
                     /\ file.lines[k][3] = r
                     /\ Cardinality(FilledCells(file.lines[k]))
                          = Cardinality(ExportedUsersWith(a, r))
                     /\ {file.lines[k][j] : j \in FilledCells(file.lines[k])}
                          = {EmailOf(u) : u \in ExportedUsersWith(a, r)}

\* The export of an album with three shared users across two roles, next to
\* an album without shares: two rows and one row, the shorter ones padded.
C9_Witness ==
  /\ Exported
  /\ run = 1
  /\ \E a \in AlbumIds :
       /\ Cardinality({u \in UserIds : history[1].server[a][u] # None}) = 3
       /\ Cardinality(ExportedRolesOf(a)) = 2
       /\ Cardinality(ExportRowsOf(a)) = 2
       /\ \E k \in ExportRowsOf(a) : file.lines[k][Len(file.lines[k])] = ""
  /\ \E a \in AlbumIds : ExportedRolesOf(a) = {}
  /\ ExportedWidth = 2

(* ------------------------------------------------------------------ *)
(* C10                                                                 *)
(* ------------------------------------------------------------------ *)

\* C10: share and remove requests go only to album ids of input rows with a
\* non-empty id and a non-empty role, and the sharing state of every other
\* album of the server is the one the run started with.
C10_Frame ==
  /\ \A k \in 1..Len(calls) : calls[k].album \in ValidIds
  /\ \A a \in AlbumIds \ ValidIds : albumUsers[a] = server0[a]

\* A finished run that changed one album while the other, shared and listed
\* only in a row with an empty role, was left alone.
C10_Witness ==
  /\ SyncFinished
  /\ \E k \in 1..Len(calls) : calls[k].ok
  /\ albumUsers # server0
  /\ \E a \in AlbumIds \ ValidIds :
       /\ server0[a] # NoShares
       /\ albumUsers[a] = server0[a]
       /\ \E k \in 2..Len(file.lines) :
            Len(file.lines[k]) >= 3 /\ Strip(file.lines[k][2]) = a

====
